---- MODULE Spec2Model ----
(***************************************************************************)
(* Model of rfs-pool: load_and_mount_pools (src/src/mount.rs), the default *)
(* configuration template (src/src/config.rs) and the POOLS registry.      *)
(*                                                                         *)
(* A configuration text is a record                                        *)
(*   [valid_syntax, pool_empty_array, tables]                              *)
(* where tables is the file-order list of [[pool]] and [[mount]] tables.   *)
(* A pool path is the number k standing for the string "/mnt/pool<k>".     *)
(***************************************************************************)
EXTENDS Integers, Sequences, FiniteSets, TLC

\* ---------------------------------------------------------------- bounds
MaxPools == 3          \* longest [[pool]] list written in a configuration
MaxId    == 4          \* largest pool_id written in a configuration
MaxCalls == 2          \* load_and_mount_pools calls started in one run

\* ------------------------------------------------------------ data model
Callers   == {1, 2}
P1        == "/etc/rfs/pool.toml"
P2        == "/var/lib/rfs/pool.toml"
Paths     == {P1, P2}
Free      == 0
ReaderId  == 9

PoolTable(id, rem, p) ==
    [table |-> "pool", pool_id |-> id, is_removable |-> rem, path |-> p]

MountTable(id, mp) ==
    [table |-> "mount", pool_id |-> id, mount_point |-> mp]

Pool(id, rem, p) == [pool_id |-> id, is_removable |-> rem, path |-> p]

Mount(id, mp) == [pool_id |-> id, mount_point |-> mp]

Doc(tabs) == [valid_syntax |-> TRUE, pool_empty_array |-> FALSE, tables |-> tabs]

\* text that is not TOML at all
Garbage == [valid_syntax |-> FALSE, pool_empty_array |-> FALSE, tables |-> <<>>]

\* the text "pool = []"
EmptyArrayDoc == [valid_syntax |-> TRUE, pool_empty_array |-> TRUE, tables |-> <<>>]

\* placeholder content of a path that holds no file
NoText == [valid_syntax |-> FALSE, pool_empty_array |-> FALSE, tables |-> <<>>]

ZeroBasedTemplate == Doc(<<PoolTable(0, FALSE, 1), PoolTable(1, FALSE, 2)>>)

OnePoolTemplate == Doc(<<PoolTable(1, FALSE, 1)>>)

\* config.rs: the template text, two [[pool]] tables and no [[mount]] table
generate_default_pools_config ==
    Doc(<<PoolTable(1, FALSE, 1), PoolTable(2, FALSE, 2)>>)

\* ------------------------------------------------------------ the parser
IsPoolTable(t) == t.table = "pool"

IsMountTable(t) == t.table = "mount"

RECURSIVE MapPools(_)
MapPools(ts) ==
    IF ts = <<>> THEN <<>>
    ELSE <<Pool(Head(ts).pool_id, Head(ts).is_removable, Head(ts).path)>>
         \o MapPools(Tail(ts))

RECURSIVE MapMounts(_)
MapMounts(ts) ==
    IF ts = <<>> THEN <<>>
    ELSE <<Mount(Head(ts).pool_id, Head(ts).mount_point)>> \o MapMounts(Tail(ts))

\* the ids the [[pool]] tables of a text declare
DeclaredIds(text) ==
    { text.tables[i].pool_id : i \in { j \in DOMAIN text.tables : IsPoolTable(text.tables[j]) } }

RefersToPool(text, t) == t.pool_id \in DeclaredIds(text)

from_str_resolved(text) ==
    [pool  |-> MapPools(SelectSeq(text.tables, IsPoolTable)),
     mount |-> MapMounts(SelectSeq(text.tables,
                    LAMBDA t : IsMountTable(t) /\ RefersToPool(text, t)))]

\* toml::from_str into PoolsFile: `pool` is required, `mount` defaults to []
ParseOk(text) ==
    /\ text.valid_syntax
    /\ \/ text.pool_empty_array /\ SelectSeq(text.tables, IsPoolTable) = <<>>
       \/ ~text.pool_empty_array /\ SelectSeq(text.tables, IsPoolTable) # <<>>

from_str(text) ==
    [pool  |-> MapPools(SelectSeq(text.tables, IsPoolTable)),
     mount |-> MapMounts(SelectSeq(text.tables, IsMountTable))]

\* ------------------------------------------------------------- validator
PoolsIsEmptyNever(ps) == FALSE

PoolsIsEmpty(ps) == Len(ps) = 0

\* stable insertion of p into a list already ordered by pool_id
RECURSIVE InsertByKey(_, _)
InsertByKey(p, s) ==
    IF s = <<>> THEN <<p>>
    ELSE IF p.pool_id < Head(s).pool_id THEN <<p>> \o s
    ELSE <<Head(s)>> \o InsertByKey(p, Tail(s))

RECURSIVE SortFrom(_, _)
SortFrom(s, acc) ==
    IF s = <<>> THEN acc ELSE SortFrom(Tail(s), InsertByKey(Head(s), acc))

NoSort(s) == s

\* pools.sort_by_key(|p| p.pool_id): stable, ascending
sort_by_key(s) == SortFrom(s, <<>>)

IdAtMost(pool, index) == pool.pool_id <= index + 1

\* the test of the enumerate() walk; index is 0-based
IdMatches(pool, index) == pool.pool_id = index + 1

SequenceOkFirstOnly(ps) == ps # <<>> => IdMatches(ps[1], 0)

\* the enumerate() walk finds no mismatch
SequenceOk(ps) == \A i \in 1..Len(ps) : IdMatches(ps[i], i - 1)

\* ------------------------------------------------------------------ state
VARIABLES
    exists,      \* the paths at which path.exists() is true
    fs,          \* the text held at each path
    dirs,        \* the paths whose parent directories exist
    POOLS,       \* the registry: the Vec<Pool> inside the Mutex
    lockHolder,  \* who holds the POOLS mutex: Free, a caller or ReaderId
    poisoned,    \* the mutex was held by a thread that panicked
    pc,          \* per call: the position inside load_and_mount_pools
    path,        \* per call: path_str
    content,     \* per call: the text read from the file
    pools,       \* per call: the local `pools`
    mounts,      \* per call: the local `mounts`
    idx,         \* per call: 1-based position of the probe loop
    result,      \* per call: what the call returned
    trace,       \* per call: log lines and steps of the running call, in order
    regAtStart,  \* per call: the registry contents when the call started
    prev,        \* per call: path, text and result of the call before
    calls,       \* number of calls started
    lastStore,   \* the caller whose store into POOLS was the latest, or Free
    rpc,         \* reader: position
    robs         \* reader: the registry as seen at each look under one lock

vars == <<exists, fs, dirs, POOLS, lockHolder, poisoned, pc, path, content,
          pools, mounts, idx, result, trace, regAtStart, prev, calls, lastStore,
          rpc, robs>>

fsVars     == <<exists, fs, dirs>>
readerVars == <<rpc, robs>>
callVars   == <<path, regAtStart, prev, calls, lastStore>>

Ev(e, lvl, id, out) == [ev |-> e, level |-> lvl, id |-> id, out |-> out]

Res(kind, p, ps, ms) == [kind |-> kind, path |-> p, pools |-> ps, mounts |-> ms]

NoResult == Res("None", "", <<>>, <<>>)

NoPrev == [path |-> "", content |-> NoText, result |-> NoResult]

Goto(c, l) == pc' = [pc EXCEPT ![c] = l]

Log(c, es) == trace' = [trace EXCEPT ![c] = @ \o es]

FailClearing(c, kind, p) ==
    /\ Goto(c, "done")
    /\ result' = [result EXCEPT ![c] = Res(kind, p, <<>>, <<>>)]
    /\ POOLS' = <<>>

\* `return Err(..)` and `?`: the call ends, the registry is not touched
Fail(c, kind, p) ==
    /\ Goto(c, "done")
    /\ result' = [result EXCEPT ![c] = Res(kind, p, <<>>, <<>>)]
    /\ POOLS' = POOLS

InitCommon ==
    /\ POOLS = <<>>
    /\ lockHolder = Free
    /\ poisoned = FALSE
    /\ pc = [c \in Callers |-> "idle"]
    /\ path = [c \in Callers |-> ""]
    /\ content = [c \in Callers |-> NoText]
    /\ pools = [c \in Callers |-> <<>>]
    /\ mounts = [c \in Callers |-> <<>>]
    /\ idx = [c \in Callers |-> 0]
    /\ result = [c \in Callers |-> NoResult]
    /\ trace = [c \in Callers |-> <<>>]
    /\ regAtStart = [c \in Callers |-> <<>>]
    /\ prev = [c \in Callers |-> NoPrev]
    /\ calls = 0
    /\ lastStore = Free
    /\ rpc = "idle"
    /\ robs = <<>>

\* ---------------------------------------------------- load_and_mount_pools
\* the caller invokes load_and_mount_pools(p)
Call(c, p) ==
    /\ pc[c] \in {"idle", "done"}
    /\ calls < MaxCalls
    /\ calls' = calls + 1
    /\ Goto(c, "exists")
    /\ path' = [path EXCEPT ![c] = p]
    /\ prev' = [prev EXCEPT ![c] =
                   [path |-> path[c], content |-> content[c], result |-> result[c]]]
    /\ regAtStart' = [regAtStart EXCEPT ![c] = POOLS]
    /\ content' = [content EXCEPT ![c] = NoText]
    /\ pools' = [pools EXCEPT ![c] = <<>>]
    /\ mounts' = [mounts EXCEPT ![c] = <<>>]
    /\ idx' = [idx EXCEPT ![c] = 0]
    /\ result' = [result EXCEPT ![c] = NoResult]
    /\ trace' = [trace EXCEPT ![c] = <<>>]
    /\ UNCHANGED <<fsVars, POOLS, lockHolder, poisoned, lastStore, readerVars>>

PathExistsInverted(c) ==
    /\ pc[c] = "exists"
    /\ IF path[c] \notin exists
       THEN Goto(c, "read") /\ Log(c, <<Ev("log_loading", "Info", 0, "")>>)
       ELSE Goto(c, "mkdir") /\ Log(c, <<Ev("log_not_found", "Warn", 0, "")>>)
    /\ UNCHANGED <<fsVars, POOLS, lockHolder, poisoned, content, pools, mounts,
                   idx, result, callVars, readerVars>>

\* if !path.exists() { log(Warn ..) .. } else log(Info "Loading pools ..")
PathExists(c) ==
    /\ pc[c] = "exists"
    /\ IF path[c] \in exists
       THEN Goto(c, "read") /\ Log(c, <<Ev("log_loading", "Info", 0, "")>>)
       ELSE Goto(c, "mkdir") /\ Log(c, <<Ev("log_not_found", "Warn", 0, "")>>)
    /\ UNCHANGED <<fsVars, POOLS, lockHolder, poisoned, content, pools, mounts,
                   idx, result, callVars, readerVars>>

\* fs::create_dir_all(parent)?
CreateDirAll(c) ==
    /\ pc[c] = "mkdir"
    /\ \E ok \in BOOLEAN :
         IF ok
         THEN /\ dirs' = dirs \cup {path[c]}
              /\ Goto(c, "write")
              /\ UNCHANGED <<result, POOLS>>
         ELSE Fail(c, "Io", "") /\ UNCHANGED dirs
    /\ Log(c, <<Ev("mkdir", "", 0, "")>>)
    /\ UNCHANGED <<exists, fs, lockHolder, poisoned, content, pools, mounts,
                   idx, callVars, readerVars>>

\* fs::write(path, config::generate_default_pools_config())?;
\* return Err(PoolError::MustConfigure(path_str.to_string()))
WriteDefault(c) ==
    /\ pc[c] = "write"
    /\ \E ok \in BOOLEAN :
         IF ok /\ path[c] \in dirs
         THEN /\ fs' = [fs EXCEPT ![path[c]] = generate_default_pools_config]
              /\ exists' = exists \cup {path[c]}
              /\ Fail(c, "MustConfigure", path[c])
         ELSE Fail(c, "Io", "") /\ UNCHANGED <<fs, exists>>
    /\ Log(c, <<Ev("write", "", 0, "")>>)
    /\ UNCHANGED <<dirs, lockHolder, poisoned, content, pools, mounts, idx,
                   callVars, readerVars>>

\* let content = fs::read_to_string(path)?;
ReadToString(c) ==
    /\ pc[c] = "read"
    /\ \E ok \in BOOLEAN :
         IF ok /\ path[c] \in exists
         THEN /\ content' = [content EXCEPT ![c] = fs[path[c]]]
              /\ Goto(c, "parse")
              /\ UNCHANGED <<result, POOLS>>
         ELSE Fail(c, "Io", "") /\ UNCHANGED content
    /\ Log(c, <<Ev("read", "", 0, "")>>)
    /\ UNCHANGED <<fsVars, lockHolder, poisoned, pools, mounts, idx, callVars,
                   readerVars>>

\* let pools_from_file: PoolsFile = toml::from_str(&content)?;
\* let mut pools = pools_from_file.pool; let mounts = pools_from_file.mount;
ParseToml(c) ==
    /\ pc[c] = "parse"
    /\ IF ParseOk(content[c])
       THEN /\ pools' = [pools EXCEPT ![c] = from_str(content[c]).pool]
            /\ mounts' = [mounts EXCEPT ![c] = from_str(content[c]).mount]
            /\ Goto(c, "validate")
            /\ UNCHANGED <<result, POOLS>>
       ELSE Fail(c, "Toml", "") /\ UNCHANGED <<pools, mounts>>
    /\ Log(c, <<Ev("parse", "", 0, "")>>)
    /\ UNCHANGED <<fsVars, lockHolder, poisoned, content, idx, callVars,
                   readerVars>>

\* the is_empty test, the sort and the enumerate() walk
Validate(c) ==
    /\ pc[c] = "validate"
    /\ IF PoolsIsEmpty(pools[c])
       THEN /\ Fail(c, "EmptyPools", "")
            /\ Log(c, <<Ev("is_empty", "", 0, "")>>)
            /\ UNCHANGED <<pools, idx>>
       ELSE /\ pools' = [pools EXCEPT ![c] = sort_by_key(pools[c])]
            /\ IF SequenceOk(sort_by_key(pools[c]))
               THEN /\ Goto(c, "probe")
                    /\ idx' = [idx EXCEPT ![c] = 1]
                    /\ Log(c, <<Ev("is_empty", "", 0, ""), Ev("sort", "", 0, ""),
                                Ev("id_check", "", 0, ""),
                                Ev("log_ids_ok", "Debug", 0, "")>>)
                    /\ UNCHANGED <<result, POOLS>>
               ELSE /\ Fail(c, "InvalidIdSequence", "")
                    /\ Log(c, <<Ev("is_empty", "", 0, ""), Ev("sort", "", 0, ""),
                                Ev("id_check", "", 0, "")>>)
                    /\ UNCHANGED idx
    /\ UNCHANGED <<fsVars, lockHolder, poisoned, content, mounts, callVars,
                   readerVars>>

\* --------------------------------------------------------- the probe loop
StatOutcomes == {"dir", "not_dir", "err"}

ProbesEveryPool(pool) == TRUE

\* if !pool.is_removable { .. metadata(..).await .. }
NeedsProbe(pool) == ~pool.is_removable

LoopFinishedEarly(c) == idx[c] >= Len(pools[c])

\* `for pool in &pools` has no pool left
LoopFinished(c) == idx[c] > Len(pools[c])

\* the log lines of one match on the metadata result
WarnsFor(outcome, id) ==
    IF outcome = "dir" THEN <<>>
    ELSE IF outcome = "not_dir" THEN <<Ev("log_not_dir", "Warn", id, "")>>
    ELSE <<Ev("log_unreachable", "Warn", id, "")>>

\* a removable pool: the loop body does nothing
SkipRemovable(c) ==
    /\ pc[c] = "probe"
    /\ ~LoopFinished(c)
    /\ ~NeedsProbe(pools[c][idx[c]])
    /\ idx' = [idx EXCEPT ![c] = @ + 1]
    /\ UNCHANGED <<fsVars, POOLS, lockHolder, poisoned, pc, content, pools,
                   mounts, result, trace, callVars, readerVars>>

StatBeginNoAwait(c) ==
    /\ pc[c] = "probe"
    /\ ~LoopFinished(c)
    /\ NeedsProbe(pools[c][idx[c]])
    /\ idx' = [idx EXCEPT ![c] = @ + 1]
    /\ Log(c, <<Ev("stat_begin", "", pools[c][idx[c]].pool_id, "")>>)
    /\ UNCHANGED <<fsVars, POOLS, lockHolder, poisoned, pc, content, pools,
                   mounts, result, callVars, readerVars>>

\* tokio::fs::metadata(&pool.path) is issued; the call is suspended
StatBegin(c) ==
    /\ pc[c] = "probe"
    /\ ~LoopFinished(c)
    /\ NeedsProbe(pools[c][idx[c]])
    /\ Goto(c, "stat")
    /\ Log(c, <<Ev("stat_begin", "", pools[c][idx[c]].pool_id, "")>>)
    /\ UNCHANGED <<fsVars, POOLS, lockHolder, poisoned, content, pools, mounts,
                   idx, result, callVars, readerVars>>

StatCompleteStrict(c) ==
    /\ pc[c] = "stat"
    /\ \E outcome \in StatOutcomes :
         /\ Log(c, <<Ev("stat_end", "", pools[c][idx[c]].pool_id, outcome)>>
                   \o WarnsFor(outcome, pools[c][idx[c]].pool_id))
         /\ IF outcome = "err"
            THEN Fail(c, "Io", "") /\ UNCHANGED idx
            ELSE /\ Goto(c, "probe")
                 /\ idx' = [idx EXCEPT ![c] = @ + 1]
                 /\ UNCHANGED <<result, POOLS>>
    /\ UNCHANGED <<fsVars, lockHolder, poisoned, content, pools, mounts,
                   callVars, readerVars>>

StatCompleteOrTimeout(c) ==
    /\ pc[c] = "stat"
    /\ \E outcome \in StatOutcomes \cup {"timeout"} :
         Log(c, IF outcome = "timeout"
                THEN <<Ev("log_unreachable", "Warn", pools[c][idx[c]].pool_id, "")>>
                ELSE <<Ev("stat_end", "", pools[c][idx[c]].pool_id, outcome)>>
                     \o WarnsFor(outcome, pools[c][idx[c]].pool_id))
    /\ Goto(c, "probe")
    /\ idx' = [idx EXCEPT ![c] = @ + 1]
    /\ UNCHANGED <<fsVars, POOLS, lockHolder, poisoned, content, pools, mounts,
                   result, callVars, readerVars>>

\* the await resumes with Ok(meta) or Err(_); either way the loop goes on
StatComplete(c) ==
    /\ pc[c] = "stat"
    /\ \E outcome \in StatOutcomes :
         Log(c, <<Ev("stat_end", "", pools[c][idx[c]].pool_id, outcome)>>
                \o WarnsFor(outcome, pools[c][idx[c]].pool_id))
    /\ Goto(c, "probe")
    /\ idx' = [idx EXCEPT ![c] = @ + 1]
    /\ UNCHANGED <<fsVars, POOLS, lockHolder, poisoned, content, pools, mounts,
                   result, callVars, readerVars>>

\* log(Debug, "Pool path accessibility check complete.")
ProbeDone(c) ==
    /\ pc[c] = "probe"
    /\ LoopFinished(c)
    /\ Goto(c, "lock")
    /\ Log(c, <<Ev("log_check_complete", "Debug", 0, "")>>)
    /\ UNCHANGED <<fsVars, POOLS, lockHolder, poisoned, content, pools, mounts,
                   idx, result, callVars, readerVars>>

\* ------------------------------------------------------------ the publish
LockAlwaysAvailable == TRUE

\* Mutex::lock blocks until nobody holds the mutex
LockAvailable == lockHolder = Free

Extend(old, new) == old \o new

Overwrite(old, new) == new \o SubSeq(old, Len(new) + 1, Len(old))

\* *pools_guard = pools.clone(): the whole Vec is replaced
Replace(old, new) == new

LockIgnoringPoison(c) ==
    /\ pc[c] = "lock"
    /\ LockAvailable
    /\ lockHolder' = c
    /\ Goto(c, "store")
    /\ UNCHANGED result
    /\ Log(c, <<Ev("lock", "", 0, "")>>)
    /\ UNCHANGED <<fsVars, POOLS, poisoned, content, pools, mounts, idx,
                   callVars, readerVars>>

\* let mut pools_guard = POOLS.lock().unwrap();
Lock(c) ==
    /\ pc[c] = "lock"
    /\ LockAvailable
    /\ IF poisoned
       THEN /\ result' = [result EXCEPT ![c] = Res("Panic", "", <<>>, <<>>)]
            /\ Goto(c, "done")
            /\ UNCHANGED lockHolder
       ELSE /\ lockHolder' = c
            /\ Goto(c, "store")
            /\ UNCHANGED result
    /\ Log(c, <<Ev("lock", "", 0, "")>>)
    /\ UNCHANGED <<fsVars, POOLS, poisoned, content, pools, mounts, idx,
                   callVars, readerVars>>

\* *pools_guard = pools.clone(); log(Info, "Storage pools mounted ..")
Store(c) ==
    /\ pc[c] = "store"
    /\ POOLS' = Replace(POOLS, pools[c])
    /\ lastStore' = c
    /\ Goto(c, "ret")
    /\ Log(c, <<Ev("store", "", 0, ""), Ev("log_mounted", "Info", 0, "")>>)
    /\ UNCHANGED <<fsVars, lockHolder, poisoned, content, pools, mounts, idx,
                   result, path, regAtStart, prev, calls, readerVars>>

ReturnKeepingGuard(c) ==
    /\ pc[c] = "ret"
    /\ result' = [result EXCEPT ![c] = Res("Ok", "", pools[c], mounts[c])]
    /\ Goto(c, "done")
    /\ UNCHANGED <<fsVars, POOLS, lockHolder, poisoned, content, pools, mounts,
                   idx, trace, callVars, readerVars>>

\* Ok((pools, mounts)); pools_guard is dropped on the way out
Return(c) ==
    /\ pc[c] = "ret"
    /\ result' = [result EXCEPT ![c] = Res("Ok", "", pools[c], mounts[c])]
    /\ lockHolder' = IF lockHolder = c THEN Free ELSE lockHolder
    /\ Goto(c, "done")
    /\ UNCHANGED <<fsVars, POOLS, poisoned, content, pools, mounts, idx, trace,
                   callVars, readerVars>>

\* ------------------------------------------- another subsystem reads POOLS
\* POOLS.lock(): a reader takes the mutex and looks at the registry
ReaderLock ==
    /\ rpc = "idle"
    /\ LockAvailable
    /\ ~poisoned
    /\ lockHolder' = ReaderId
    /\ rpc' = "reading"
    /\ robs' = <<POOLS>>
    /\ UNCHANGED <<fsVars, POOLS, poisoned, pc, content, pools, mounts, idx,
                   result, trace, callVars>>

\* the reader looks again through the same guard
ReaderLook ==
    /\ rpc = "reading"
    /\ Len(robs) < 2
    /\ robs' = Append(robs, POOLS)
    /\ UNCHANGED <<fsVars, POOLS, lockHolder, poisoned, pc, content, pools,
                   mounts, idx, result, trace, callVars, rpc>>

\* the reader drops its guard and keeps what it saw
ReaderUnlock ==
    /\ rpc = "reading"
    /\ Len(robs) = 2
    /\ lockHolder' = IF lockHolder = ReaderId THEN Free ELSE lockHolder
    /\ rpc' = "idle"
    /\ UNCHANGED <<fsVars, POOLS, poisoned, pc, content, pools, mounts, idx,
                   result, trace, callVars, robs>>

\* the reader panics while it holds the guard: the mutex becomes poisoned
ReaderPanic ==
    /\ rpc = "reading"
    /\ lockHolder' = IF lockHolder = ReaderId THEN Free ELSE lockHolder
    /\ poisoned' = TRUE
    /\ rpc' = "dead"
    /\ robs' = <<>>
    /\ UNCHANGED <<fsVars, POOLS, pc, content, pools, mounts, idx, result,
                   trace, callVars>>

\* ---------------------------------------------------------- configurations
Ids == 0..MaxId

PoolSeqs(n) ==
    { [i \in 1..n |-> PoolTable(f[i][1], f[i][2], i)] :
        f \in [1..n -> Ids \X BOOLEAN] }

\* no [[mount]] table, or one whose pool_id no pool of the file can have
MountChoices == { <<>>, <<MountTable(MaxId + 1, 1)>> }

Files ==
    { Doc(ps \o ms) : ps \in UNION { PoolSeqs(n) : n \in 0..MaxPools },
                      ms \in MountChoices }
    \cup {Garbage, EmptyArrayDoc}

\* ------------------------------------ one caller, one path, any file
\* P1 holds one of `files`; P2 holds the template of an earlier run when it
\* is in `present`, and is missing otherwise
InitFs(files, present) ==
    /\ exists = present
    /\ dirs = present
    /\ \E f \in files :
         fs = [p \in Paths |-> IF p = P1 THEN f
                               ELSE IF p \in present THEN generate_default_pools_config
                               ELSE NoText]

\* two valid files and one with a duplicate id
ConcFiles ==
    { Doc(<<PoolTable(2, TRUE, 1), PoolTable(1, FALSE, 2)>>),
      Doc(<<PoolTable(1, FALSE, 1), PoolTable(1, FALSE, 2)>>),
      Doc(<<PoolTable(3, TRUE, 1), PoolTable(1, TRUE, 2), PoolTable(2, FALSE, 3),
            MountTable(1, 1)>>) }

\* the same, and the texts `pool = []` and non-TOML
FewFiles == ConcFiles \cup {Garbage, EmptyArrayDoc}

\* P1 holds any file, or no file at all
Init ==
    /\ InitCommon
    /\ InitFs(Files, {P1}) \/ InitFs({NoText}, {})

\* one step of caller c, whose calls name the paths ps
Step(c, ps) ==
    \/ \E p \in ps : Call(c, p)
    \/ PathExists(c)
    \/ CreateDirAll(c)
    \/ WriteDefault(c)
    \/ ReadToString(c)
    \/ ParseToml(c)
    \/ Validate(c)
    \/ SkipRemovable(c)
    \/ StatBegin(c)
    \/ StatComplete(c)
    \/ ProbeDone(c)
    \/ Lock(c)
    \/ Store(c)
    \/ Return(c)

Next == Step(1, {P1})

Spec == Init /\ [][Next]_vars

\* ------------------------------------ one caller, two paths, a few files
InitSeq ==
    /\ InitCommon
    /\ InitFs(FewFiles, {P1}) \/ InitFs(FewFiles, {P1, P2})

NextSeq == Step(1, Paths)

SpecSeq == InitSeq /\ [][NextSeq]_vars

\* ------------------------------- two callers and a reader, a few files
InitConc ==
    /\ InitCommon
    /\ InitFs(ConcFiles, {P1}) \/ InitFs(ConcFiles, {P1, P2})

NextConc ==
    \/ \E c \in Callers : Step(c, Paths)
    \/ ReaderLock
    \/ ReaderLook
    \/ ReaderUnlock
    \/ ReaderPanic

SpecConc == InitConc /\ [][NextConc]_vars

\* ================================================================ claims
Returned(c) == pc[c] = "done" /\ result[c].kind # "None"

HasEv(c, e) == \E i \in DOMAIN trace[c] : trace[c][i].ev = e

\* the pool list of the configuration text the call read
Parsed(c) == from_str(content[c]).pool

IdSet(ps) == { ps[i].pool_id : i \in DOMAIN ps }

Range(s) == { s[i] : i \in DOMAIN s }

IsPermutation(ps) == Len(ps) >= 1 /\ IdSet(ps) = 1..Len(ps)

HasDuplicate(ps) == \E i, j \in DOMAIN ps : i # j /\ ps[i].pool_id = ps[j].pool_id

HasGap(ps) ==
    \E k \in 0..MaxId + 1 :
        /\ k \notin IdSet(ps)
        /\ \E a, b \in IdSet(ps) : a < k /\ k < b

MinNotOne(ps) == 1 \notin IdSet(ps) \/ 0 \in IdSet(ps)

AscendingFromOne(ps) == \A i \in DOMAIN ps : ps[i].pool_id = i

\* C1: a call that read a parsable configuration whose pool ids are a
\* permutation of 1..N returns Ok, and the returned list and the registry
\* both hold exactly the N pools of the file, in ascending pool_id order.
C1_PermutationLoads ==
    \A c \in Callers :
        (Returned(c) /\ ParseOk(content[c]) /\ IsPermutation(Parsed(c)))
        => /\ result[c].kind = "Ok"
           /\ Len(result[c].pools) = Len(Parsed(c))
           /\ Range(result[c].pools) = Range(Parsed(c))
           /\ AscendingFromOne(result[c].pools)
           /\ POOLS = result[c].pools

\* a three-pool file listed as 3, 1, 2 has been loaded
C1_Witness ==
    \E c \in Callers :
        /\ Returned(c) /\ result[c].kind = "Ok"
        /\ Len(Parsed(c)) = 3
        /\ Parsed(c)[1].pool_id = 3 /\ Parsed(c)[2].pool_id = 1
        /\ POOLS = result[c].pools

\* C2: a call that read a parsable, non-empty pool list with a duplicate id,
\* a gap, or a smallest id other than 1 returns InvalidIdSequence.
C2_BadSequenceRejected ==
    \A c \in Callers :
        (/\ Returned(c) /\ ParseOk(content[c]) /\ Parsed(c) # <<>>
         /\ \/ HasDuplicate(Parsed(c))
            \/ HasGap(Parsed(c))
            \/ MinNotOne(Parsed(c)))
        => result[c].kind = "InvalidIdSequence"

\* a file with the ids 1, 1 (a duplicate, no gap, smallest id 1) was rejected
C2_Witness ==
    \E c \in Callers :
        /\ Returned(c) /\ result[c].kind = "InvalidIdSequence"
        /\ HasDuplicate(Parsed(c))
        /\ ~HasGap(Parsed(c)) /\ ~MinNotOne(Parsed(c))

\* C3: a call that parsed a configuration with no pool entry returns
\* EmptyPools, and neither the sort nor the id walk ran in that call.
C3_EmptyPoolsFirst ==
    \A c \in Callers :
        (Returned(c) /\ ParseOk(content[c]) /\ Parsed(c) = <<>>)
        => /\ result[c].kind = "EmptyPools"
           /\ ~HasEv(c, "sort")
           /\ ~HasEv(c, "id_check")

\* the text `pool = []` was parsed and the call has returned
C3_Witness ==
    \E c \in Callers :
        /\ Returned(c) /\ HasEv(c, "is_empty")
        /\ ParseOk(content[c]) /\ Parsed(c) = <<>>

ErrorKinds == {"EmptyPools", "InvalidIdSequence", "MustConfigure", "Io", "Toml"}

\* the steps that come after the bootstrap branch
LoadSteps == {"read", "parse", "is_empty", "sort", "id_check", "stat_begin",
              "stat_end", "lock", "store"}

\* C4: a call that found its path missing and met no I/O failure returns
\* MustConfigure(path); the parent directories and the file now exist, the
\* file holds the two-pool template (pool 1 and pool 2, both non-removable,
\* /mnt/pool1 and /mnt/pool2, no mount), and the call neither read, parsed,
\* validated or probed anything nor changed the registry.
C4_Bootstrap ==
    \A c \in Callers :
        (Returned(c) /\ HasEv(c, "log_not_found") /\ result[c].kind # "Io")
        => /\ result[c] = Res("MustConfigure", path[c], <<>>, <<>>)
           /\ path[c] \in dirs
           /\ path[c] \in exists
           /\ fs[path[c]] = [valid_syntax |-> TRUE, pool_empty_array |-> FALSE,
                             tables |-> <<PoolTable(1, FALSE, 1),
                                          PoolTable(2, FALSE, 2)>>]
           /\ \A e \in LoadSteps : ~HasEv(c, e)
           /\ POOLS = regAtStart[c]

\* a bootstrap on the missing path after an earlier load filled the registry
C4_Witness ==
    \E c \in Callers :
        /\ Returned(c) /\ result[c].kind = "MustConfigure"
        /\ HasEv(c, "mkdir") /\ HasEv(c, "write")
        /\ POOLS # <<>>

\* C5: when a call returns an error, the registry holds what it held when
\* the call started, and the call never stored into it.
C5_ErrorLeavesRegistry ==
    \A c \in Callers :
        (Returned(c) /\ result[c].kind \in ErrorKinds)
        => POOLS = regAtStart[c] /\ ~HasEv(c, "store")

\* a rejected id sequence while the registry holds an earlier load's pools
C5_Witness ==
    \E c \in Callers :
        /\ Returned(c) /\ result[c].kind = "InvalidIdSequence"
        /\ regAtStart[c] # <<>>

\* C6: once a call has probed at least one pool, whatever the stat outcomes
\* were, it returns Ok with the sorted pools and the mounts of the file it
\* read, and the registry holds those pools: the outcome depends on the
\* configuration alone.
C6_ProbeIndependent ==
    \A c \in Callers :
        (Returned(c) /\ HasEv(c, "stat_end"))
        => /\ result[c] = Res("Ok", "", sort_by_key(Parsed(c)),
                              from_str(content[c]).mount)
           /\ Len(result[c].pools) = Len(Parsed(c))
           /\ POOLS = result[c].pools

\* a load has returned after one stat failed and another hit a non-directory
C6_Witness ==
    \E c \in Callers :
        /\ Returned(c) /\ result[c].kind = "Ok"
        /\ \E i, j \in DOMAIN trace[c] :
             /\ trace[c][i].ev = "stat_end" /\ trace[c][i].out = "err"
             /\ trace[c][j].ev = "stat_end" /\ trace[c][j].out = "not_dir"

\* the steps and log lines that are about one pool
PoolEvents == {"stat_begin", "stat_end", "log_not_dir", "log_unreachable"}

EventsOf(c, id) ==
    { i \in DOMAIN trace[c] : trace[c][i].ev \in PoolEvents /\ trace[c][i].id = id }

StatsOf(c, id) == { i \in EventsOf(c, id) : trace[c][i].ev = "stat_end" }

WarnsOf(c, id) == { i \in EventsOf(c, id) : trace[c][i].level = "Warn" }

ProbePassed(c) == HasEv(c, "log_check_complete")

\* C7: in a call that finished its probe loop, a removable pool has no stat
\* and no log line at all; a non-removable pool has exactly one stat, with no
\* warning when the path is a directory and exactly one warning otherwise;
\* and the call does not end in an error.
C7_WarningsPerPool ==
    \A c \in Callers :
        /\ \A k \in DOMAIN pools[c] :
             pools[c][k].is_removable => EventsOf(c, pools[c][k].pool_id) = {}
        /\ ProbePassed(c) =>
             /\ \A k \in DOMAIN pools[c] :
                  ~pools[c][k].is_removable =>
                    /\ Cardinality(StatsOf(c, pools[c][k].pool_id)) = 1
                    /\ \A i \in StatsOf(c, pools[c][k].pool_id) :
                         Cardinality(WarnsOf(c, pools[c][k].pool_id)) =
                            IF trace[c][i].out = "dir" THEN 0 ELSE 1
             /\ result[c].kind \notin ErrorKinds

\* a load has returned with a removable pool and an unreachable fixed pool
C7_Witness ==
    \E c \in Callers :
        /\ Returned(c) /\ result[c].kind = "Ok"
        /\ \E k \in DOMAIN pools[c] : pools[c][k].is_removable
        /\ \E i \in DOMAIN trace[c] : trace[c][i].ev = "log_unreachable"

\* C8: when a call returns Ok right after a call that returned Ok on the same
\* path with the same text, both returned the same pools, and the registry is
\* the second list alone, as long as it was before the second call.
C8_Idempotent ==
    \A c \in Callers :
        (/\ Returned(c) /\ result[c].kind = "Ok"
         /\ prev[c].result.kind = "Ok"
         /\ prev[c].path = path[c] /\ prev[c].content = content[c])
        => /\ result[c].pools = prev[c].result.pools
           /\ POOLS = result[c].pools
           /\ Len(POOLS) = Len(regAtStart[c])

\* the same three-pool file has been loaded twice in a row
C8_Witness ==
    \E c \in Callers :
        /\ Returned(c) /\ result[c].kind = "Ok"
        /\ prev[c].result.kind = "Ok"
        /\ prev[c].path = path[c] /\ prev[c].content = content[c]
        /\ Len(POOLS) = 3

\* the lists a load of one of the texts on disk can publish
CompleteCollections ==
    { sort_by_key(from_str(f).pool) :
        f \in { g \in ConcFiles \cup {generate_default_pools_config} :
                  ParseOk(g) /\ SequenceOk(sort_by_key(from_str(g).pool)) } }
    \cup {<<>>}

\* C9: every look a reader takes under one lock shows the same registry, and
\* what it shows is a complete collection (the empty initial one or the whole
\* list of one load); no load is between lock and return while a reader
\* holds the lock.
C9_AtomicPublish ==
    /\ \A i \in DOMAIN robs : robs[i] \in CompleteCollections /\ robs[i] = robs[1]
    /\ rpc = "reading" => \A c \in Callers : pc[c] \notin {"store", "ret"}

\* a reader holds the lock and has seen a published list twice while a load
\* of another list waits to publish
C9_Witness ==
    /\ rpc = "reading" /\ Len(robs) = 2 /\ robs[1] # <<>>
    /\ \E c \in Callers : pc[c] = "lock" /\ pools[c] # robs[1]

Before(c, e, i) == \E j \in 1..(i - 1) : trace[c][j].ev = e

\* C10: in every call, each stat starts after the line that reports the id
\* check passed (and the local pools are then the validated list), and the
\* store into the registry comes after a completed stat of every
\* non-removable pool; no stat starts after the store.
C10_PhaseOrder ==
    \A c \in Callers : \A i \in DOMAIN trace[c] :
        /\ trace[c][i].ev = "stat_begin" =>
             /\ Before(c, "log_ids_ok", i)
             /\ ~Before(c, "store", i)
             /\ AscendingFromOne(pools[c])
        /\ trace[c][i].ev = "store" =>
             \A k \in DOMAIN pools[c] :
                ~pools[c][k].is_removable =>
                   \E j \in 1..(i - 1) :
                      /\ trace[c][j].ev = "stat_end"
                      /\ trace[c][j].id = pools[c][k].pool_id

\* a load of three non-removable pools has stored into the registry
C10_Witness ==
    \E c \in Callers :
        /\ HasEv(c, "store")
        /\ Len(pools[c]) = 3
        /\ \A k \in DOMAIN pools[c] : ~pools[c][k].is_removable

Running(c) == pc[c] \notin {"idle", "done"}

\* C11: while a call runs on a path that exists, no step creates a directory
\* or creates or changes a file, whatever the call goes on to return.
C11_WritesOnlyOnBootstrap ==
    [][\A c \in Callers :
          (Running(c) /\ path[c] \in exists) => UNCHANGED fsVars]_vars

\* a call on an existing file with an invalid id sequence has returned and
\* the file is not the template
C11_Witness ==
    \E c \in Callers :
        /\ Returned(c) /\ result[c].kind = "InvalidIdSequence"
        /\ HasEv(c, "log_loading") /\ ~HasEv(c, "write")
        /\ fs[path[c]] = content[c]
        /\ Len(Parsed(c)) = 3

\* the [[mount]] tables of the text the call read, in file order
MountTablesOf(c) == SelectSeq(content[c].tables, IsMountTable)

\* what a call that read its file returns, by the pool list alone
KindByPools(ps) ==
    IF ps = <<>> THEN "EmptyPools"
    ELSE IF IsPermutation(ps) THEN "Ok"
    ELSE "InvalidIdSequence"

\* C12: the result kind of a call that parsed its file is decided by the pool
\* list alone; when it is Ok the returned mounts are the [[mount]] tables of
\* the file, one for one and in file order, dangling pool_id included, and
\* the empty list when the file has no [[mount]] table.
C12_MountsNotValidated ==
    \A c \in Callers :
        (Returned(c) /\ ParseOk(content[c]))
        => /\ result[c].kind = KindByPools(Parsed(c))
           /\ result[c].kind = "Ok" =>
                /\ Len(result[c].mounts) = Len(MountTablesOf(c))
                /\ \A i \in DOMAIN result[c].mounts :
                     /\ result[c].mounts[i].pool_id = MountTablesOf(c)[i].pool_id
                     /\ result[c].mounts[i].mount_point = MountTablesOf(c)[i].mount_point

\* a three-pool file with a mount whose pool_id names no pool has loaded
C12_Witness ==
    \E c \in Callers :
        /\ Returned(c) /\ result[c].kind = "Ok"
        /\ Len(result[c].pools) = 3
        /\ Len(result[c].mounts) = 1
        /\ result[c].mounts[1].pool_id \notin IdSet(result[c].pools)

\* positions of the trace that hold the step or log line e
At(c, e) == { i \in DOMAIN trace[c] : trace[c][i].ev = e }

\* positions of the per-pool warnings
WarnAt(c) == At(c, "log_not_dir") \cup At(c, "log_unreachable")

\* stats issued and not yet completed among the first i trace entries
Outstanding(c, i) ==
    Cardinality({ j \in At(c, "stat_begin") : j <= i })
    - Cardinality({ j \in At(c, "stat_end") : j <= i })

\* C13: in every call at most one stat is outstanding at any point of the
\* trace; a stat of pool k starts only after a completed stat of every
\* non-removable pool with a smaller id; stats start, and warnings appear,
\* in strictly ascending pool_id order.
C13_SequentialProbes ==
    \A c \in Callers :
        /\ \A i \in DOMAIN trace[c] : Outstanding(c, i) \in {0, 1}
        /\ \A i \in At(c, "stat_begin") :
             \A k \in DOMAIN pools[c] :
                (~pools[c][k].is_removable /\ pools[c][k].pool_id < trace[c][i].id)
                => \E j \in At(c, "stat_end") :
                      j < i /\ trace[c][j].id = pools[c][k].pool_id
        /\ \A i, j \in At(c, "stat_begin") : i < j => trace[c][i].id < trace[c][j].id
        /\ \A i, j \in WarnAt(c) : i < j => trace[c][i].id < trace[c][j].id

\* the third stat of a call is outstanding after two warnings
C13_Witness ==
    \E c \in Callers :
        /\ pc[c] = "stat"
        /\ Cardinality(At(c, "stat_begin")) = 3
        /\ Cardinality(WarnAt(c)) = 2

\* the call is suspended in the stat of the pool at idx
Suspended(c) == pc[c] = "stat"

\* the call sits where it was: nothing of it, and not the registry, changed
Stalled(c) ==
    /\ pc'[c] = pc[c] /\ idx'[c] = idx[c] /\ trace'[c] = trace[c]
    /\ result'[c] = result[c] /\ POOLS' = POOLS

\* the step is the completion of the pending stat
PendingStatCompleted(c) ==
    /\ Len(trace'[c]) > Len(trace[c])
    /\ trace'[c][Len(trace[c]) + 1].ev = "stat_end"
    /\ trace'[c][Len(trace[c]) + 1].id = pools[c][idx[c]].pool_id

\* C14: while a call is suspended in a stat it has not returned, has not
\* stored, the registry is as it was when the call started and no later pool
\* has a stat; and the call leaves that position by the completion of that
\* stat and by nothing else (no timeout, no cancellation).
C14_NoTimeout ==
    /\ [](\A c \in Callers :
            Suspended(c) =>
              /\ result[c] = NoResult
              /\ ~HasEv(c, "store") /\ ~HasEv(c, "lock")
              /\ POOLS = regAtStart[c]
              /\ \A k \in DOMAIN pools[c] :
                   k > idx[c] => EventsOf(c, pools[c][k].pool_id) = {})
    /\ [][\A c \in Callers :
            Suspended(c) => Stalled(c) \/ PendingStatCompleted(c)]_vars

\* a call hangs in the stat of its first pool, two more pools wait, and the
\* registry holds the pools of an earlier load
C14_Witness ==
    \E c \in Callers :
        /\ Suspended(c) /\ idx[c] = 1 /\ Len(pools[c]) = 3
        /\ \A k \in DOMAIN pools[c] : ~pools[c][k].is_removable
        /\ POOLS # <<>> /\ POOLS = regAtStart[c]

\* the step takes the call from the lock() line on
LeavesLock(c) == pc[c] = "lock" /\ pc'[c] # "lock"

\* C15: a call that reaches lock() on a poisoned mutex ends in a panic, not
\* in Ok and not in a PoolError, and that step leaves the registry and the
\* mutex as they were; no call is ever past lock() on a poisoned mutex, and
\* a call that panicked never stored.
C15_PoisonPanics ==
    /\ [](\A c \in Callers :
            /\ pc[c] \in {"store", "ret"} => ~poisoned
            /\ result[c].kind = "Panic" =>
                 poisoned /\ pc[c] = "done" /\ ~HasEv(c, "store"))
    /\ [][\A c \in Callers :
            (LeavesLock(c) /\ poisoned) =>
              /\ result'[c].kind = "Panic"
              /\ pc'[c] = "done"
              /\ POOLS' = POOLS
              /\ lockHolder' = lockHolder]_vars

\* a load of a valid file panicked at the publish step while the registry
\* held the pools of another load
C15_Witness ==
    \E c \in Callers :
        /\ result[c].kind = "Panic" /\ pc[c] = "done"
        /\ HasEv(c, "log_check_complete")
        /\ POOLS # <<>> /\ POOLS # pools[c]

\* the registry is empty or holds the ids 1..N in ascending order
RegistryWellFormed ==
    \A i \in DOMAIN POOLS : POOLS[i].pool_id = i

\* C16: in every state the registry is empty or a list whose ids are
\* 1, 2, .., N in order, N its length; it is non-empty whenever some call has
\* returned Ok, and once non-empty it never becomes empty.
C16_RegistryInvariant ==
    /\ [](/\ RegistryWellFormed
          /\ (\E c \in Callers : result[c].kind = "Ok") => POOLS # <<>>)
    /\ [][POOLS # <<>> => POOLS' # <<>>]_vars

\* one caller's load succeeded and the other caller's load was rejected; the
\* registry holds the pools of the load that succeeded
C16_Witness ==
    \E c, d \in Callers :
        /\ Returned(c) /\ result[c].kind = "Ok"
        /\ Returned(d) /\ result[d].kind = "InvalidIdSequence"
        /\ HasEv(d, "id_check")
        /\ POOLS = result[c].pools /\ Len(POOLS) = 2

\* between lock() and the return: the only place a call holds the guard
InCritical(c) == pc[c] \in {"store", "ret"}

\* C17: a call holds the mutex exactly between lock() and its return, which
\* is after the probe loop has finished and never while it is suspended in a
\* stat; a caller that holds the mutex can always take its next step; and
\* when no call is between lock() and return an idle reader can take the
\* mutex (unless it is poisoned), also while calls are suspended in a stat.
C17_NoLockAcrossAwait ==
    /\ \A c \in Callers :
         /\ lockHolder = c <=> InCritical(c)
         /\ InCritical(c) => HasEv(c, "log_check_complete") /\ LoopFinished(c)
         /\ lockHolder = c => ENABLED (Store(c) \/ Return(c))
    /\ ((\A c \in Callers : ~InCritical(c)) /\ rpc = "idle" /\ ~poisoned)
         => ENABLED ReaderLock

\* a call is suspended in a stat while a reader holds the mutex and sees the
\* pools an earlier load published, the registry this call started with
C17_Witness ==
    \E c \in Callers :
        /\ pc[c] = "stat"
        /\ rpc = "reading" /\ lockHolder = ReaderId
        /\ robs[1] # <<>> /\ robs[1] = regAtStart[c]

\* C18: each call that returns Ok returns the sorted pools of the file it
\* read itself; the registry is always the whole list of the call that stored
\* last (empty before any store); so after two calls on different paths have
\* both returned Ok, the registry is the list returned by the one that
\* published last.
C18_LastPublisherWins ==
    /\ \A c \in Callers :
         /\ (Returned(c) /\ result[c].kind = "Ok")
              => result[c].pools = sort_by_key(Parsed(c))
         /\ (lastStore = c /\ HasEv(c, "store")) => POOLS = pools[c]
    /\ lastStore = Free => POOLS = <<>>
    /\ ((\A c \in Callers : Returned(c) /\ result[c].kind = "Ok")
        /\ path[1] # path[2])
         => lastStore \in Callers /\ POOLS = result[lastStore].pools

\* two calls on different files, each started before the other stored, have
\* both returned Ok; the one with the shorter list published last, over the
\* longer list of the other
C18_Witness ==
    \E c, d \in Callers :
        /\ Returned(c) /\ result[c].kind = "Ok" /\ Len(result[c].pools) = 2
        /\ Returned(d) /\ result[d].kind = "Ok" /\ Len(result[d].pools) = 3
        /\ path[c] # path[d]
        /\ regAtStart[c] = <<>> /\ regAtStart[d] = <<>>
        /\ lastStore = c

\* C19: a call that follows a MustConfigure on the same path, and reads the
\* file, returns Ok (not MustConfigure) with pool 1 and pool 2, both
\* non-removable, and no mount, and the registry holds these two pools.
C19_BootstrapThenLoad ==
    \A c \in Callers :
        (/\ Returned(c)
         /\ prev[c].result.kind = "MustConfigure"
         /\ prev[c].path = path[c]
         /\ result[c].kind # "Io")
        => /\ HasEv(c, "log_loading") /\ HasEv(c, "log_ids_ok")
           /\ result[c].kind = "Ok"
           /\ Len(result[c].pools) = 2
           /\ \A i \in 1..2 :
                result[c].pools[i].pool_id = i /\ ~result[c].pools[i].is_removable
           /\ result[c].mounts = <<>>
           /\ POOLS = result[c].pools

\* the second call on the bootstrapped path has returned, after both stats
\* failed
C19_Witness ==
    \E c \in Callers :
        /\ Returned(c)
        /\ prev[c].result = Res("MustConfigure", path[c], <<>>, <<>>)
        /\ HasEv(c, "store")
        /\ Cardinality(At(c, "log_unreachable")) = 2

====
